---- MODULE Spec2Model ----
(***************************************************************************)
(* Model of the two exported ISO8601Regex patterns:                        *)
(*   - the ESM pattern of src/strict-iso-8601-regex.js                     *)
(*   - the CJS pattern of src/unnamed/part_002 (strict-iso-8601-regex.cjs) *)
(* Each pattern is kept as the syntax tree of the source text handed to    *)
(* new RegExp(...), and is run by a backtracking matcher that follows the  *)
(* ECMAScript semantics of the constructs the two patterns use (character  *)
(* classes, concatenation, ordered alternation, greedy bounded repetition, *)
(* capturing groups, lookbehind, negative lookahead, ^ and $ without the   *)
(* multiline flag).  A string is a sequence of one-character strings.      *)
(***************************************************************************)
EXTENDS Integers, Sequences, FiniteSets, TLC

VARIABLES input, esm, cjs, esmLastIndex, cjsLastIndex, calls

vars == <<input, esm, cjs, esmLastIndex, cjsLastIndex, calls>>

(***************************************************************************)
(* Pattern syntax                                                          *)
(***************************************************************************)
Digit == {"0", "1", "2", "3", "4", "5", "6", "7", "8", "9"}

Cls(cs) == [k |-> "cls", cs |-> cs]
\* mutant: a literal letter as under the ignoreCase flag
Lit_IgnoreCase(c) ==
  [k |-> "cls",
   cs |-> IF c = "T" THEN {"T", "t"} ELSE IF c = "Z" THEN {"Z", "z"} ELSE {c}]

Lit(c) == [k |-> "cls", cs |-> {c}]
Cat(ns) == [k |-> "cat", ns |-> ns]
Alt(ns) == [k |-> "alt", ns |-> ns]
Rep(n, lo, hi) == [k |-> "rep", n |-> n, lo |-> lo, hi |-> hi]
Opt(n) == [k |-> "rep", n |-> n, lo |-> 0, hi |-> 1]
Grp(idx, n) == [k |-> "grp", n |-> n, idx |-> idx]
LookBehind(n) == [k |-> "lookbehind", n |-> n]
NegLookAhead(n) == [k |-> "neglookahead", n |-> n]
\* mutant: a pattern that is not anchored at the start
Bol_Absent == [k |-> "cat", ns |-> <<>>]

Bol == [k |-> "bol"]
Eol == [k |-> "eol"]

\* mutant: \d that takes a digit of another script as well
D_Unicode == Cls(Digit \cup {"U+0663"})

\* \d without the unicode flag: the ten ASCII digits
D == Cls(Digit)
\* two-character literal such as 01, 14
Two(a, b) == Cat(<<Lit(a), Lit(b)>>)

(***************************************************************************)
(* Matcher                                                                 *)
(***************************************************************************)
\* a capture slot is <<>> (undefined) or <<substring>>
Undefined == <<>>
Captured(str) == <<str>>

\* the patterns are built by new RegExp(source) with no flags argument
Multiline == FALSE
\* mutant: a pattern built with the global flag
Global_Set == TRUE

Global == FALSE
\* mutant: a pattern built with the sticky flag
Sticky_Set == TRUE

Sticky == FALSE

LineTerminator == {"\n", "\r"}

Thread(pos, ngroups) == [pos |-> pos, caps |-> [g \in 1..ngroups |-> Undefined]]

RECURSIVE Flatten(_)
Flatten(ss) ==
  IF ss = <<>> THEN <<>> ELSE Head(ss) \o Flatten(Tail(ss))

\* mutant: $ as under the multiline flag
AtEol_Multiline(s, p) == p = Len(s) \/ s[p + 1] \in LineTerminator

\* mutant: ^ as under the multiline flag
AtBol_Multiline(s, p) == p = 0 \/ s[p] \in LineTerminator

AtBol(s, p) == p = 0 \/ (Multiline /\ s[p] \in LineTerminator)
AtEol(s, p) == p = Len(s) \/ (Multiline /\ s[p + 1] \in LineTerminator)

RECURSIVE M(_, _, _, _)
RECURSIVE MCat(_, _, _, _, _)
RECURSIVE MRep(_, _, _, _, _)

\* all the ways node n matches s from thread t, in backtracking order; fwd is
\* the direction: forward, or backward inside a lookbehind, where a character
\* is read before the position and a concatenation runs right to left
M(n, s, t, fwd) ==
  CASE n.k = "cls" ->
         IF fwd
           THEN IF t.pos < Len(s) /\ s[t.pos + 1] \in n.cs
                  THEN <<[t EXCEPT !.pos = @ + 1]>>
                  ELSE <<>>
           ELSE IF t.pos > 0 /\ s[t.pos] \in n.cs
                  THEN <<[t EXCEPT !.pos = @ - 1]>>
                  ELSE <<>>
    [] n.k = "cat" -> MCat(n.ns, IF fwd THEN 1 ELSE Len(n.ns), s, t, fwd)
    [] n.k = "alt" -> Flatten([a \in 1..Len(n.ns) |-> M(n.ns[a], s, t, fwd)])
    [] n.k = "rep" -> MRep(n, 0, s, t, fwd)
    [] n.k = "grp" ->
         LET rs == M(n.n, s, t, fwd)
         IN  [r \in 1..Len(rs) |->
                [rs[r] EXCEPT !.caps[n.idx] =
                   Captured(IF fwd THEN SubSeq(s, t.pos + 1, rs[r].pos)
                                   ELSE SubSeq(s, rs[r].pos + 1, t.pos))]]
    [] n.k = "lookbehind" ->
         \* atomic: the first backward match, whose captures are kept
         LET rs == M(n.n, s, t, FALSE)
         IN  IF rs = <<>> THEN <<>> ELSE <<[t EXCEPT !.caps = rs[1].caps]>>
    [] n.k = "neglookahead" ->
         IF M(n.n, s, t, TRUE) = <<>> THEN <<t>> ELSE <<>>
    [] n.k = "bol" -> IF AtBol(s, t.pos) THEN <<t>> ELSE <<>>
    [] n.k = "eol" -> IF AtEol(s, t.pos) THEN <<t>> ELSE <<>>

\* the nodes of ns from index i on, one after the other in direction fwd
MCat(ns, i, s, t, fwd) ==
  IF i > Len(ns) \/ i < 1 THEN <<t>>
  ELSE LET rs == M(ns[i], s, t, fwd)
       IN  IF rs = <<>> THEN <<>>
           ELSE IF Len(rs) = 1
             THEN MCat(ns, IF fwd THEN i + 1 ELSE i - 1, s, rs[1], fwd)
             ELSE Flatten([r \in 1..Len(rs) |->
                             MCat(ns, IF fwd THEN i + 1 ELSE i - 1, s, rs[r], fwd)])

\* greedy n{lo,hi}: one more iteration is tried before stopping
MRep(n, cnt, s, t, fwd) ==
  LET more == IF cnt < n.hi
                THEN LET rs == M(n.n, s, t, fwd)
                     IN  Flatten([r \in 1..Len(rs) |->
                                    MRep(n, cnt + 1, s, rs[r], fwd)])
                ELSE <<>>
      stop == IF cnt >= n.lo THEN <<t>> ELSE <<>>
  IN  more \o stop

\* RegExpBuiltinExec: the match is attempted at lastIndex (0 unless global or
\* sticky) and then at every later index; the result is null or the first thread
Null == <<>>

\* the match object: index, the positional captures, and groups, which is
\* undefined when the pattern has no named group (slots maps name to position)
MatchObject(i, r, slots) ==
  [index |-> i, end |-> r.pos, caps |-> r.caps,
   groups |-> IF DOMAIN slots = {} THEN Undefined
              ELSE Captured([nm \in DOMAIN slots |-> r.caps[slots[nm]]])]

RECURSIVE ExecFrom(_, _, _, _, _)
ExecFrom(re, ngroups, slots, s, i) ==
  IF i > Len(s) THEN Null
  ELSE LET rs == M(re, s, Thread(i, ngroups), TRUE)
       IN  IF rs # <<>>
             THEN <<MatchObject(i, rs[1], slots)>>
             ELSE IF Sticky THEN Null ELSE ExecFrom(re, ngroups, slots, s, i + 1)

RegExpExec(re, ngroups, slots, s, lastIndex) ==
  ExecFrom(re, ngroups, slots, s, IF Global \/ Sticky THEN lastIndex ELSE 0)

(***************************************************************************)
(* The work of the matcher                                                 *)
(***************************************************************************)
RECURSIVE SumSeq(_)
SumSeq(ns) == IF ns = <<>> THEN 0 ELSE Head(ns) + SumSeq(Tail(ns))

RECURSIVE Steps(_, _, _, _)
RECURSIVE StepsCat(_, _, _, _, _)
RECURSIVE StepsRep(_, _, _, _, _)

\* the number of node visits M makes for node n from thread t: every
\* alternative and every backtracking path is followed to its end, which a
\* backtracking engine does at most
Steps(n, s, t, fwd) ==
  CASE n.k = "cls" -> 1
    [] n.k = "cat" ->
         1 + StepsCat(n.ns, IF fwd THEN 1 ELSE Len(n.ns), s, t, fwd)
    [] n.k = "alt" ->
         1 + SumSeq([a \in 1..Len(n.ns) |-> Steps(n.ns[a], s, t, fwd)])
    [] n.k = "rep" -> StepsRep(n, 0, s, t, fwd)
    [] n.k = "grp" -> 1 + Steps(n.n, s, t, fwd)
    [] n.k = "lookbehind" -> 1 + Steps(n.n, s, t, FALSE)
    [] n.k = "neglookahead" -> 1 + Steps(n.n, s, t, TRUE)
    [] n.k = "bol" -> 1
    [] n.k = "eol" -> 1

StepsCat(ns, i, s, t, fwd) ==
  IF i > Len(ns) \/ i < 1 THEN 0
  ELSE LET rs == M(ns[i], s, t, fwd)
       IN  Steps(ns[i], s, t, fwd)
             + SumSeq([r \in 1..Len(rs) |->
                         StepsCat(ns, IF fwd THEN i + 1 ELSE i - 1, s, rs[r], fwd)])

StepsRep(n, cnt, s, t, fwd) ==
  1 + (IF cnt < n.hi
         THEN LET rs == M(n.n, s, t, fwd)
              IN  Steps(n.n, s, t, fwd)
                    + SumSeq([r \in 1..Len(rs) |->
                                StepsRep(n, cnt + 1, s, rs[r], fwd)])
         ELSE 0)

\* the node visits of one exec call: the attempts at index i and after it
RECURSIVE ExecSteps(_, _, _, _)
ExecSteps(re, ngroups, s, i) ==
  IF i > Len(s) THEN 0
  ELSE Steps(re, s, Thread(i, ngroups), TRUE)
         + (IF Sticky \/ M(re, s, Thread(i, ngroups), TRUE) # <<>> THEN 0
            ELSE ExecSteps(re, ngroups, s, i + 1))

\* the number of nodes of a pattern, a repeated node counted once for each
\* repetition: what one attempt visits when it never goes back
RECURSIVE Weight(_)
Weight(n) ==
  CASE n.k \in {"cls", "bol", "eol"} -> 1
    [] n.k \in {"cat", "alt"} ->
         1 + SumSeq([a \in 1..Len(n.ns) |-> Weight(n.ns[a])])
    [] n.k = "rep" -> 1 + n.hi * (Weight(n.n) + 1)
    [] n.k \in {"grp", "lookbehind", "neglookahead"} -> 1 + Weight(n.n)

(***************************************************************************)
(* Sub-patterns shared by the two sources                                  *)
(***************************************************************************)
\* (?:\d{2}(?:0[48]|[2468][048]|[13579][26]))
LeapNonCentury ==
  Cat(<<Rep(D, 2, 2),
        Alt(<<Cat(<<Lit("0"), Cls({"4", "8"})>>),
              Cat(<<Cls({"2", "4", "6", "8"}), Cls({"0", "4", "8"})>>),
              Cat(<<Cls({"1", "3", "5", "7", "9"}), Cls({"2", "6"})>>)>>)>>)

\* mutant: every century year taken as a leap year, \d{2}00
LeapCentury_Every == Cat(<<Rep(D, 2, 2), Lit("0"), Lit("0")>>)

\* (?:(?:[02468][048]|[13579][26])00)
LeapCentury ==
  Cat(<<Alt(<<Cat(<<Cls({"0", "2", "4", "6", "8"}), Cls({"0", "4", "8"})>>),
              Cat(<<Cls({"1", "3", "5", "7", "9"}), Cls({"2", "6"})>>)>>),
        Lit("0"), Lit("0")>>)

\* (?:01|03|05|07|08|10|12)
Months31 ==
  Alt(<<Two("0", "1"), Two("0", "3"), Two("0", "5"), Two("0", "7"),
        Two("0", "8"), Two("1", "0"), Two("1", "2")>>)

\* (?:04|06|09|11)
Months30 ==
  Alt(<<Two("0", "4"), Two("0", "6"), Two("0", "9"), Two("1", "1")>>)

\* (?:0[1-9]|[12]\d|3[01])
Days31 ==
  Alt(<<Cat(<<Lit("0"), Cls(Digit \ {"0"})>>),
        Cat(<<Cls({"1", "2"}), D>>),
        Cat(<<Lit("3"), Cls({"0", "1"})>>)>>)

\* mutant: the 30-day months given 31 days
Days30_With31 ==
  Alt(<<Cat(<<Lit("0"), Cls(Digit \ {"0"})>>),
        Cat(<<Cls({"1", "2"}), D>>),
        Cat(<<Lit("3"), Cls({"0", "1"})>>)>>)

\* (?:0[1-9]|[12]\d|30)
Days30 ==
  Alt(<<Cat(<<Lit("0"), Cls(Digit \ {"0"})>>),
        Cat(<<Cls({"1", "2"}), D>>),
        Two("3", "0")>>)

\* (?:0[1-9]|1\d|2[0-8])
Days28 ==
  Alt(<<Cat(<<Lit("0"), Cls(Digit \ {"0"})>>),
        Cat(<<Lit("1"), D>>),
        Cat(<<Lit("2"), Cls(Digit \ {"9"})>>)>>)

\* (?:0[1-9]|1\d|2\d)
Days29 ==
  Alt(<<Cat(<<Lit("0"), Cls(Digit \ {"0"})>>),
        Cat(<<Lit("1"), D>>),
        Cat(<<Lit("2"), D>>)>>)

\* mutant: hours [0-2]\d
Hours_To29 == Cat(<<Cls({"0", "1", "2"}), D>>)

\* (?:[01]\d|2[0-3])
Hours ==
  Alt(<<Cat(<<Cls({"0", "1"}), D>>),
        Cat(<<Lit("2"), Cls({"0", "1", "2", "3"})>>)>>)

\* mutant: 60 allowed as for a leap second, (?:[0-5]\d|60)
Sixty_LeapSecond ==
  Alt(<<Cat(<<Cls({"0", "1", "2", "3", "4", "5"}), D>>), Two("6", "0")>>)

\* [0-5]\d
Sixty == Cat(<<Cls({"0", "1", "2", "3", "4", "5"}), D>>)

(***************************************************************************)
(* The ESM pattern, src/strict-iso-8601-regex.js                           *)
(***************************************************************************)
\* mutant: the leap-year branch with February 01..28
ESM_leapDate_Feb28 ==
  Cat(<<Alt(<<LeapNonCentury, LeapCentury>>),
        Lit("-"),
        Alt(<<Cat(<<Months31, Lit("-"), Days31>>),
              Cat(<<Months30, Lit("-"), Days30>>),
              Cat(<<Two("0", "2"), Lit("-"), Days28>>)>>)>>)

\* leap-year branch: leap year, '-', month and day with February 01..29
ESM_leapDate ==
  Cat(<<Alt(<<LeapNonCentury, LeapCentury>>),
        Lit("-"),
        Alt(<<Cat(<<Months31, Lit("-"), Days31>>),
              Cat(<<Months30, Lit("-"), Days30>>),
              Cat(<<Two("0", "2"), Lit("-"), Days29>>)>>)>>)

\* mutant: the common-year branch without its lookahead
ESM_commonDate_NoGuard ==
  Cat(<<Cat(<<>>),
        Rep(D, 4, 4),
        Lit("-"),
        Alt(<<Cat(<<Months31, Lit("-"), Days31>>),
              Cat(<<Months30, Lit("-"), Days30>>),
              Cat(<<Two("0", "2"), Lit("-"), Days28>>)>>)>>)

\* common-year branch: (?!leap year)\d{4}, '-', February 01..28
ESM_commonDate ==
  Cat(<<NegLookAhead(Alt(<<LeapNonCentury, LeapCentury>>)),
        Rep(D, 4, 4),
        Lit("-"),
        Alt(<<Cat(<<Months31, Lit("-"), Days31>>),
              Cat(<<Months30, Lit("-"), Days30>>),
              Cat(<<Two("0", "2"), Lit("-"), Days28>>)>>)>>)

ESM_date == Alt(<<ESM_leapDate, ESM_commonDate>>)

\* mutant: seconds that may be left out, T(?:[01]\d|2[0-3]):[0-5]\d(?::[0-5]\d)?
ESM_time_NoSeconds ==
  Cat(<<Lit("T"), Hours, Lit(":"), Sixty, Opt(Cat(<<Lit(":"), Sixty>>))>>)

\* T(?:[01]\d|2[0-3]):[0-5]\d:[0-5]\d
ESM_time == Cat(<<Lit("T"), Hours, Lit(":"), Sixty, Lit(":"), Sixty>>)

\* mutant: a fraction of up to four digits
ESM_fraction_Four == Opt(Cat(<<Lit("."), Rep(D, 1, 4)>>))

\* (?:\.\d{1,3})?
ESM_fraction == Opt(Cat(<<Lit("."), Rep(D, 1, 3)>>))

\* mutant: offset hours up to 19 only, (?:Z|[+-][01]\d:[0-5]\d)
ESM_offset_To19 ==
  Alt(<<Lit("Z"),
        Cat(<<Cls({"+", "-"}), Cat(<<Cls({"0", "1"}), D>>), Lit(":"), Sixty>>)>>)

\* (?:Z|[+-](?:[01]\d|2[0-3]):[0-5]\d)
ESM_offset ==
  Alt(<<Lit("Z"), Cat(<<Cls({"+", "-"}), Hours, Lit(":"), Sixty>>)>>)

ESM_Regex ==
  Cat(<<Bol, ESM_date, ESM_time, ESM_fraction, ESM_offset, Eol>>)

\* the ESM source has no capturing group, named or not
ESM_NGroups == 0
ESM_GroupSlot == <<>>

(***************************************************************************)
(* The CJS pattern, src/unnamed/part_002                                   *)
(***************************************************************************)
\* positional slot of each named group, in order of its opening parenthesis;
\* slot 4 is the unnamed group inside the leap-year lookbehind
GroupSlot ==
  [year |-> 1, month |-> 2, day |-> 3, hour |-> 5, minute |-> 6,
   second |-> 7, millisecond |-> 8, timezone |-> 9]

CJS_NGroups == 9

\* a year that may not start with 0
CJS_year_NoLeadingZero ==
  Grp(GroupSlot.year, Cat(<<Cls(Digit \ {"0"}), Rep(D, 3, 3)>>))

\* (?<year>\d{4})
CJS_year == Grp(GroupSlot.year, Rep(D, 4, 4))

\* (?<month>(?:0[1-9]|1[0-2]))
CJS_month ==
  Grp(GroupSlot.month,
      Alt(<<Cat(<<Lit("0"), Cls(Digit \ {"0"})>>),
            Cat(<<Lit("1"), Cls({"0", "1", "2"})>>)>>))

\* (?<=\d{4}-(?:01|03|05|07|08|10|12)-)(?:0[1-9]|[12]\d|3[01])
CJS_day31 ==
  Cat(<<LookBehind(Cat(<<Rep(D, 4, 4), Lit("-"), Months31, Lit("-")>>)),
        Days31>>)

\* (?<=\d{4}-(?:04|06|09|11)-)(?:0[1-9]|[12]\d|30)
CJS_day30 ==
  Cat(<<LookBehind(Cat(<<Rep(D, 4, 4), Lit("-"), Months30, Lit("-")>>)),
        Days30>>)

\* mutant: February 01..29 in any year besides the leap-day alternative
CJS_dayFeb_To29 ==
  Cat(<<LookBehind(Cat(<<Rep(D, 4, 4), Lit("-"), Two("0", "2"), Lit("-")>>)),
        Days29>>)

\* (?<=\d{4}-02-)(?:0[1-9]|1\d|2[0-8])
CJS_dayFeb ==
  Cat(<<LookBehind(Cat(<<Rep(D, 4, 4), Lit("-"), Two("0", "2"), Lit("-")>>)),
        Days28>>)

\* mutant: the leap year of the lookbehind in a non-capturing group
CJS_dayLeap_NonCapturing ==
  Cat(<<LookBehind(Cat(<<Alt(<<LeapNonCentury, LeapCentury>>),
                         Lit("-"), Two("0", "2"), Lit("-")>>)),
        Two("2", "9")>>)

\* (?<=(leap year)-02-)29
CJS_dayLeap ==
  Cat(<<LookBehind(Cat(<<Grp(4, Alt(<<LeapNonCentury, LeapCentury>>)),
                         Lit("-"), Two("0", "2"), Lit("-")>>)),
        Two("2", "9")>>)

\* (?<day>(?: 31-day | 30-day | Feb 01-28 | leap Feb 29 ))
CJS_day ==
  Grp(GroupSlot.day, Alt(<<CJS_day31, CJS_day30, CJS_dayFeb, CJS_dayLeap>>))

CJS_hour == Grp(GroupSlot.hour, Hours)
CJS_minute == Grp(GroupSlot.minute, Sixty)
CJS_second == Grp(GroupSlot.second, Sixty)

\* mutant: a repetition inside a repetition, (?:\.(?<millisecond>(?:\d{1,3}){1,4}))?
CJS_fraction_Nested ==
  Opt(Cat(<<Lit("."),
            Grp(GroupSlot.millisecond, Rep(Rep(D, 1, 3), 1, 4))>>))

\* mutant: a fraction of up to four digits
CJS_fraction_Four ==
  Opt(Cat(<<Lit("."), Grp(GroupSlot.millisecond, Rep(D, 1, 4))>>))

\* mutant: the dot inside the millisecond group
CJS_fraction_DotInside ==
  Opt(Grp(GroupSlot.millisecond, Cat(<<Lit("."), Rep(D, 1, 3)>>)))

\* mutant: the group outside the optional part, \.?(?<millisecond>\d{0,3})
CJS_fraction_Empty ==
  Cat(<<Opt(Lit(".")), Grp(GroupSlot.millisecond, Rep(D, 0, 3))>>)

\* (?:\.(?<millisecond>\d{1,3}))?
CJS_fraction ==
  Opt(Cat(<<Lit("."), Grp(GroupSlot.millisecond, Rep(D, 1, 3))>>))

\* mutant: any minute after +14, \+(?:0\d|1[0-4]):[0-5]\d
CJS_tzPlus_To1459 ==
  Cat(<<Lit("+"),
        Alt(<<Cat(<<Lit("0"), D>>),
              Cat(<<Lit("1"), Cls({"0", "1", "2", "3", "4"})>>)>>),
        Lit(":"), Sixty>>)

\* \+(?:(?:0\d|1[0-3]):[0-5]\d|14:00)
CJS_tzPlus ==
  Cat(<<Lit("+"),
        Alt(<<Cat(<<Alt(<<Cat(<<Lit("0"), D>>),
                          Cat(<<Lit("1"), Cls({"0", "1", "2", "3"})>>)>>),
                    Lit(":"), Sixty>>),
              Cat(<<Lit("1"), Lit("4"), Lit(":"), Lit("0"), Lit("0")>>)>>)>>)

\* mutant: no negative zero, -(?!00:00)(?:(?:0\d|1[01]):[0-5]\d|12:00)
CJS_tzMinus_NoZero ==
  Cat(<<Lit("-"),
        NegLookAhead(Cat(<<Lit("0"), Lit("0"), Lit(":"), Lit("0"), Lit("0")>>)),
        Alt(<<Cat(<<Alt(<<Cat(<<Lit("0"), D>>),
                          Cat(<<Lit("1"), Cls({"0", "1"})>>)>>),
                    Lit(":"), Sixty>>),
              Cat(<<Lit("1"), Lit("2"), Lit(":"), Lit("0"), Lit("0")>>)>>)>>)

\* mutant: any minute after -12, -(?:0\d|1[0-2]):[0-5]\d
CJS_tzMinus_To1259 ==
  Cat(<<Lit("-"),
        Alt(<<Cat(<<Lit("0"), D>>),
              Cat(<<Lit("1"), Cls({"0", "1", "2"})>>)>>),
        Lit(":"), Sixty>>)

\* -(?:(?:0\d|1[01]):[0-5]\d|12:00)
CJS_tzMinus ==
  Cat(<<Lit("-"),
        Alt(<<Cat(<<Alt(<<Cat(<<Lit("0"), D>>),
                          Cat(<<Lit("1"), Cls({"0", "1"})>>)>>),
                    Lit(":"), Sixty>>),
              Cat(<<Lit("1"), Lit("2"), Lit(":"), Lit("0"), Lit("0")>>)>>)>>)

\* mutant: a designator that may be left out
CJS_timezone_Optional ==
  Opt(Grp(GroupSlot.timezone, Alt(<<Lit("Z"), Alt(<<CJS_tzPlus, CJS_tzMinus>>)>>)))

\* mutant: the group around the signed offset only
CJS_timezone_NoZ ==
  Alt(<<Lit("Z"), Grp(GroupSlot.timezone, Alt(<<CJS_tzPlus, CJS_tzMinus>>))>>)

\* (?<timezone>Z|(?:\+...|-...))
CJS_timezone ==
  Grp(GroupSlot.timezone, Alt(<<Lit("Z"), Alt(<<CJS_tzPlus, CJS_tzMinus>>)>>))

CJS_Regex ==
  Cat(<<Bol, CJS_year, Lit("-"), CJS_month, Lit("-"), CJS_day,
        Lit("T"), CJS_hour, Lit(":"), CJS_minute, Lit(":"), CJS_second,
        CJS_fraction, CJS_timezone, Eol>>)


(***************************************************************************)
(* Input strings                                                           *)
(***************************************************************************)
DigitChar == <<"0", "1", "2", "3", "4", "5", "6", "7", "8", "9">>

\* String(n): the decimal digits of a natural number
RECURSIVE ToStr(_)
ToStr(n) ==
  IF n < 10 THEN <<DigitChar[n + 1]>>
  ELSE ToStr(n \div 10) \o <<DigitChar[(n % 10) + 1]>>

\* String(n).padStart(w, '0')
RECURSIVE PadStart(_, _)
PadStart(str, w) == IF Len(str) >= w THEN str ELSE PadStart(<<"0">> \o str, w)

Pad2(n) == PadStart(ToStr(n), 2)
Pad4(n) == PadStart(ToStr(n), 4)

MkDate(y, mo, d) == Pad4(y) \o <<"-">> \o Pad2(mo) \o <<"-">> \o Pad2(d)
MkTime(h, mi, sec) == <<"T">> \o Pad2(h) \o <<":">> \o Pad2(mi) \o <<":">> \o Pad2(sec)
MkOffset(sg, h, mi) == <<sg>> \o Pad2(h) \o <<":">> \o Pad2(mi)

\* n copies of the character c
RECURSIVE Repeat(_, _)
Repeat(c, n) == IF n = 0 THEN <<>> ELSE <<c>> \o Repeat(c, n - 1)

\* largest year and largest value of a two-digit field the inputs are built from
MaxYear == 9999
MaxField == 99
\* month and day values of the date samples, fraction lengths of the fraction samples
MaxMonthSample == 13
MaxDaySample == 32
MaxFracLen == 5

UTC == <<"Z">>
BaseDate == MkDate(2025, 11, 2)
BaseTime == MkTime(10, 20, 30)

SampleYears == {0, 4, 100, 400, 1900, 2000, 2023, 2024, 9999}
DateYears == {1900, 2024}
HourEdges == {0, 23, 24}
SixtyEdges == {0, 59, 60}
SampleOffsets == {UTC, MkOffset("+", 14, 0), MkOffset("-", 0, 0)}

\* Feb 29 of every year
YearInputs ==
  {MkDate(y, 2, 29) \o BaseTime \o UTC : y \in 0..MaxYear}

DateSamples ==
  {MkDate(y, mo, d) \o MkTime(23, 59, 59) \o tz :
     y \in SampleYears, mo \in 0..MaxMonthSample, d \in 0..MaxDaySample,
     tz \in {UTC}}

\* every month and day of a common century year and of a leap year, and the
\* date samples
DateInputs ==
  {MkDate(y, mo, d) \o BaseTime \o UTC :
     y \in DateYears, mo \in 0..MaxField, d \in 0..MaxField}
  \cup DateSamples

\* every signed offset
OffsetInputs ==
  {BaseDate \o BaseTime \o MkOffset(sg, h, mi) :
     sg \in {"+", "-"}, h \in 0..MaxField, mi \in 0..MaxField}

\* each time field over its whole range, the other two at their edges
TimeSamples ==
  LET T(h, mi, sec) == BaseDate \o MkTime(h, mi, sec) \o UTC
  IN  {T(h, mi, sec) : h \in 0..MaxField, mi \in SixtyEdges, sec \in SixtyEdges}
      \cup {T(h, mi, sec) : h \in HourEdges, mi \in 0..MaxField, sec \in SixtyEdges}
      \cup {T(h, mi, sec) : h \in HourEdges, mi \in SixtyEdges, sec \in 0..MaxField}
      \cup {MkDate(y, 2, 28) \o MkTime(h, mi, sec) \o MkOffset("+", 1, 0) :
              y \in SampleYears, h \in {23, 24}, mi \in {59, 60}, sec \in {59, 60}}
      \* a time field written with one digit
      \cup {BaseDate \o <<"T">> \o a \o <<":">> \o b \o <<":">> \o c \o UTC :
              a \in {<<"7">>, <<"0", "7">>}, b \in {<<"5">>, <<"0", "5">>},
              c \in {<<"9">>, <<"0", "9">>}}

\* the fractional part: absent, or a separator followed by 0..MaxFracLen digits
FractionSamples ==
  {BaseDate \o BaseTime \o tz : tz \in SampleOffsets}
  \cup {BaseDate \o BaseTime \o sep \o Repeat(c, n) \o tz :
          sep \in {<<".">>, <<",">>, <<".", ".">>}, c \in Digit,
          n \in 0..MaxFracLen, tz \in SampleOffsets}
  \cup {BaseDate \o BaseTime \o <<".">> \o f \o tz :
          f \in {<<"0", "4", "5">>, <<"1", "2">>, <<"1", "2", "3">>,
                 <<"1", "2", "3", "4">>, <<"5", ".">>, <<"5", ".", "5">>,
                 <<"1", " ">>, <<"a">>, <<"1", "a">>},
          tz \in SampleOffsets}

OffsetSamples ==
  {MkDate(2038, 1, 19) \o MkTime(3, 14, 7) \o fr \o MkOffset(sg, h, mi) :
     fr \in {<<>>, <<".", "0", "4", "5">>}, sg \in {"+", "-"},
     h \in {0, 9, 11, 12, 13, 14, 15, 23, 24}, mi \in {0, 1, 59, 60}}

\* characters put before, after or into a string
Alphabet ==
  Digit \cup {"-", ":", ".", ",", "T", "t", "Z", "z", "+", " ", "\t", "\n",
              "\r", "#", "/", "W", "a", "U+0000", "U+0663", "U+2212"}

SpanBases ==
  {BaseDate \o BaseTime \o UTC,
   BaseDate \o BaseTime \o <<".", "5">> \o UTC,
   BaseDate \o BaseTime \o MkOffset("-", 0, 0),
   MkDate(2024, 2, 29) \o MkTime(23, 59, 59) \o <<".", "1", "2", "3">>
     \o MkOffset("+", 14, 0)}

\* the bases, each with one character before or after it, and each proper
\* prefix and suffix of a base
SpanInputs ==
  SpanBases
  \cup {<<c>> \o b : c \in Alphabet, b \in SpanBases}
  \cup {b \o <<c>> : c \in Alphabet, b \in SpanBases}
  \cup UNION {{SubSeq(b, 1, n) : n \in 0..(Len(b) - 1)} : b \in SpanBases}
  \cup UNION {{SubSeq(b, n, Len(b)) : n \in 2..(Len(b) + 1)} : b \in SpanBases}

\* what follows the year in a valid string
AfterYear == SubSeq(BaseDate, 5, 10) \o BaseTime \o UTC

\* years written with too few or too many digits
YearWidths ==
  {<<>>, <<"5">>, <<"2", "5">>, <<"0", "2", "5">>, <<"2", "0", "2", "5">>,
   <<"1", "2", "0", "2", "5">>, <<"0", "0", "2", "0", "2", "5">>,
   <<"U+0663", "0", "2", "5">>, <<"2", "0", "2", "a">>}

\* month and day written with one, two or three digits
FieldWidths ==
  {<<>>, <<"2">>, <<"5">>, <<"0", "2">>, <<"0", "5">>, <<"1", "1">>,
   <<"2", "8">>, <<"3", "1">>, <<"0", "0", "2">>, <<"0", "0", "5">>,
   <<"0", "2", "0">>}

\* every year from 0000 on with a valid rest, years of other widths, signed
\* years, and months and days of other widths
ShapeInputs ==
  {ToStr(y) \o AfterYear : y \in 0..MaxYear}
  \cup {Pad4(y) \o AfterYear : y \in 0..MaxYear}
  \cup {yy \o AfterYear : yy \in YearWidths}
  \cup {<<sg>> \o Pad4(y) \o AfterYear :
          sg \in {"-", "+", "U+2212"}, y \in SampleYears}
  \cup {Pad4(y) \o <<"-">> \o mo \o <<"-">> \o d \o BaseTime \o tz :
          y \in {2023, 2024, 2025}, mo \in FieldWidths, d \in FieldWidths,
          tz \in {UTC, MkOffset("+", 1, 0)}}

\* accepted strings that are edited; the last one is accepted by the ESM
\* pattern only
EditBases ==
  SpanBases
  \cup {BaseDate \o BaseTime \o <<".", "5">> \o MkOffset("+", 23, 59)}

\* characters that separate two strings written one after the other
Joiners == {" ", "\n", "\r"}

\* the bases with one character replaced, with one character inserted, and
\* two bases joined by a separator
EditInputs ==
  EditBases
  \cup UNION {{[b EXCEPT ![i] = c] : i \in 1..Len(b), c \in Alphabet} :
                b \in EditBases}
  \cup UNION {{SubSeq(b, 1, i) \o <<c>> \o SubSeq(b, i + 1, Len(b)) :
                  i \in 0..Len(b), c \in Alphabet} : b \in EditBases}
  \cup {a \o <<c>> \o b : a \in EditBases, b \in EditBases, c \in Joiners}

\* what is written where the offset designator belongs: nothing, one
\* designator, two designators, and designators that miss a part
DesignatorTails ==
  LET P == MkOffset("+", 9, 0)
      N == MkOffset("-", 1, 0)
  IN  {<<>>, UTC, P, N,
       UTC \o UTC, UTC \o P, UTC \o N, P \o UTC, N \o UTC, P \o P, P \o N,
       <<"+">>, <<"-">>, <<"Z", "+">>,
       <<"+", "9", ":", "0", "0">>, <<"-", "9", ":", "0", "0">>,
       <<"+", "0", "9", ":", "5">>, <<"+", "0", "9", ":">>, <<"+", "0", "9">>,
       <<"+", "0", "9", "0", "0">>, <<"-", "0", "9", "0", "0">>,
       <<"+", ":", "0", "0">>, <<"0", "9", ":", "0", "0">>,
       <<"+", "0", "0", "9", ":", "0", "0">>, <<"+", "0", "9", ":", "0", "0", "0">>,
       <<"+", "0", "9", ":", ":", "0", "0">>, <<"+", "0", "9", ".", "0", "0">>,
       <<"+", "+", "0", "9", ":", "0", "0">>, <<"U+2212", "0", "9", ":", "0", "0">>}

DesignatorInputs ==
  {d \o BaseTime \o fr \o tz :
     d \in {BaseDate, MkDate(2024, 2, 29)},
     fr \in {<<>>, <<".", "5">>, <<".", "1", "2", "3">>},
     tz \in DesignatorTails}

\* the three spellings of a zero offset
ZeroOffsets == {UTC, MkOffset("+", 0, 0), MkOffset("-", 0, 0)}

\* valid dates and times, each with the three spellings
ZeroOffsetInputs ==
  {MkDate(y, mo, d) \o MkTime(h, mi, sec) \o fr \o tz :
     y \in SampleYears, mo \in {1, 2, 12}, d \in {1, 28},
     h \in {0, 23}, mi \in {0, 59}, sec \in {0, 59},
     fr \in {<<>>, <<".", "0">>}, tz \in ZeroOffsets}

\* the empty string, the strings that values of other types are coerced to,
\* other text, and single characters
TextInputs ==
  {<<>>,
   <<"u", "n", "d", "e", "f", "i", "n", "e", "d">>,
   <<"n", "u", "l", "l">>,
   <<"N", "a", "N">>,
   <<"t", "r", "u", "e">>,
   <<"0">>,
   <<"1", "2", "3">>,
   <<"[", "o", "b", "j", "e", "c", "t", " ", "O", "b", "j", "e", "c", "t", "]">>,
   <<"i", "n", "v", "a", "l", "i", "d", "-", "d", "a", "t", "e", "-", "s", "t", "r", "i", "n", "g">>,
   <<"n", "o", "t", " ", "a", " ", "d", "a", "t", "e">>,
   <<"2", "0", "2", "5", "-", "1", "1", "-", "0", "2">>,
   <<"1", "0", ":", "2", "0", ":", "3", "0", "Z">>,
   <<"T">>,
   <<"Z">>}
  \cup {<<c>> : c \in Alphabet}
  \cup {<<c, c>> : c \in Alphabet}

\* the strings of a sequence of calls: accepted ones and rejected ones
CallInputs ==
  EditBases \cup TextInputs
  \cup {b \o <<"\n">> : b \in EditBases}
  \cup {MkDate(2025, 2, 30) \o MkTime(12, 0, 0) \o UTC,
        BaseDate \o MkTime(24, 0, 0) \o UTC,
        BaseDate \o BaseTime \o MkOffset("+", 14, 1),
        BaseDate \o BaseTime \o MkOffset("-", 12, 59)}

\* other ISO 8601 forms: week dates, ordinal dates, the basic form, dates
\* and times alone, reduced precision, expanded years
VariantInputs ==
  {<<"2", "0", "2", "5", "-", "W", "4", "5", "-", "7", "T", "1", "2",
     ":", "0", "0", ":", "0", "0", "Z">>,
   <<"2", "0", "2", "5", "-", "W", "4", "5", "T", "1", "2", ":", "0",
     "0", ":", "0", "0", "Z">>,
   <<"2", "0", "2", "5", "-", "3", "0", "6", "T", "1", "2", ":", "0",
     "0", ":", "0", "0", "Z">>,
   <<"2", "0", "2", "5", "3", "0", "6", "T", "1", "2", "0", "0", "0",
     "0", "Z">>,
   <<"2", "0", "2", "5", "-", "1", "1", "-", "0", "2", "T", "1", "0",
     ":", "2", "0", "Z">>,
   <<"2", "0", "2", "5", "-", "1", "1", "-", "0", "2", "T", "1", "0",
     "Z">>,
   <<"2", "0", "2", "5", "-", "1", "1", "-", "0", "2", "T", "1", "0",
     ":", "2", "0", "+", "0", "1", ":", "0", "0">>,
   <<"2", "0", "2", "5", "-", "1", "1", "-", "0", "2", "T", "1", "0",
     "2", "0", "Z">>,
   <<"2", "0", "2", "5", "1", "1", "0", "2", "T", "1", "0", "2", "0",
     "3", "0", "Z">>,
   <<"2", "0", "2", "5", "1", "1", "0", "2", "T", "1", "0", ":", "2",
     "0", ":", "3", "0", "Z">>,
   <<"2", "0", "2", "5", "-", "1", "1", "-", "0", "2", "T", "1", "0",
     "2", "0", "3", "0", "Z">>,
   <<"2", "0", "2", "5", "1", "1", "0", "2", "T", "1", "0", "2", "0",
     "3", "0", ".", "5", "+", "0", "1", "0", "0">>,
   <<"2", "0", "2", "5", "-", "1", "1", "-", "0", "2">>,
   <<"2", "0", "2", "5", "-", "1", "1">>,
   <<"2", "0", "2", "5">>,
   <<"2", "0", "2", "5", "-", "1", "1", "-", "0", "2", "T">>,
   <<"2", "0", "2", "5", "-", "1", "1", "-", "0", "2", "Z">>,
   <<"T", "1", "0", ":", "2", "0", ":", "3", "0", "Z">>,
   <<"1", "0", ":", "2", "0", ":", "3", "0", "Z">>,
   <<"1", "0", ":", "2", "0", ":", "3", "0">>,
   <<"2", "0", "2", "5", "-", "1", "1", "T", "1", "0", ":", "2", "0",
     ":", "3", "0", "Z">>,
   <<"2", "0", "2", "5", "T", "1", "0", ":", "2", "0", ":", "3", "0",
     "Z">>,
   <<"2", "0", "2", "5", "-", "1", "1", "-", "0", "2", "T", "1", "0",
     ":", "2", "0", ":", "3", "0">>,
   <<"2", "0", "2", "5", "-", "1", "1", "-", "0", "2", "T", "2", "4",
     ":", "0", "0", ":", "0", "0", "Z">>,
   <<"+", "0", "0", "2", "0", "2", "5", "-", "1", "1", "-", "0", "2",
     "T", "1", "0", ":", "2", "0", ":", "3", "0", "Z">>,
   <<"2", "0", "2", "5", "-", "1", "1", "-", "0", "2", "T", "1", "0",
     ":", "2", "0", ":", "3", "0", ".", "5">>,
   <<"2", "0", "2", "5", "-", "1", "1", "-", "0", "2", "T", "1", "0",
     ":", "2", "0", ".", "5", "Z">>}

\* the longest run of one character in an input
MaxRun == 30

\* strings with a long run of digits where the fraction is, long runs of one
\* character, accepted strings written twice and three times, leap days, and
\* the strings of the other families
StepInputs ==
  CallInputs \cup OffsetSamples \cup FractionSamples \cup VariantInputs
  \cup {BaseDate \o BaseTime \o <<".">> \o Repeat("1", n) \o tz :
          n \in 0..MaxRun,
          tz \in {UTC, <<>>, <<"x">>, MkOffset("+", 14, 0), MkOffset("-", 13, 0)}}
  \cup {Repeat(c, n) : c \in {"1", "-", "Z", "\n"}, n \in 0..MaxRun}
  \cup {b \o b : b \in EditBases}
  \cup {b \o b \o b : b \in EditBases}
  \cup {MkDate(y, mo, d) \o BaseTime \o UTC :
          y \in SampleYears, mo \in {2, 4, 12}, d \in {28, 29, 30, 31}}

Inputs ==
  DateSamples \cup TimeSamples \cup FractionSamples \cup OffsetSamples
    \cup SpanInputs \cup DesignatorInputs \cup ZeroOffsetInputs
    \cup TextInputs \cup VariantInputs

(***************************************************************************)
(* The two exported pattern objects and the calls made on them             *)
(***************************************************************************)
\* the number of calls a behaviour is followed for
MaxCalls == 4

\* no call made yet
NotCalled == <<"not", "called">>

InitOn(S) ==
  /\ input \in S
  /\ esm = NotCalled
  /\ cjs = NotCalled
  /\ esmLastIndex = 0
  /\ cjsLastIndex = 0
  /\ calls = 0

\* lastIndex after a call: written only by a global or sticky pattern
LastIndexAfter(res, lastIndex) ==
  IF Global \/ Sticky
    THEN (IF res = Null THEN 0 ELSE res[1].end)
    ELSE lastIndex

\* ISO8601Regex.exec(input) / .test(input) on the ESM export; a caller
\* validates its input once with a pattern
ExecESM ==
  /\ esm = NotCalled
  /\ calls < MaxCalls
  /\ calls' = calls + 1
  /\ LET res == RegExpExec(ESM_Regex, ESM_NGroups, ESM_GroupSlot, input, esmLastIndex)
     IN  /\ esm' = res
         /\ esmLastIndex' = LastIndexAfter(res, esmLastIndex)
         /\ UNCHANGED <<input, cjs, cjsLastIndex>>

\* ISO8601Regex.exec(input) / .test(input) on the CJS export
ExecCJS ==
  /\ cjs = NotCalled
  /\ calls < MaxCalls
  /\ calls' = calls + 1
  /\ LET res == RegExpExec(CJS_Regex, CJS_NGroups, GroupSlot, input, cjsLastIndex)
     IN  /\ cjs' = res
         /\ cjsLastIndex' = LastIndexAfter(res, cjsLastIndex)
         /\ UNCHANGED <<input, esm, esmLastIndex>>

Next == ExecESM \/ ExecCJS

Init == InitOn(Inputs)
InitYears == InitOn(YearInputs)
InitDates == InitOn(DateInputs)
InitOffsets == InitOn(OffsetInputs)

\* calls on sample inputs of every kind
Spec == Init /\ [][Next]_vars
\* calls on Feb 29 of every year
SpecYears == InitYears /\ [][Next]_vars
\* calls on every month and day of two years and on the date samples
SpecDates == InitDates /\ [][Next]_vars
\* calls on every signed offset
SpecOffsets == InitOffsets /\ [][Next]_vars

\* the caller goes on to its next string, which may be the same one again;
\* the pattern objects are kept
NextInput ==
  /\ esm # NotCalled \/ cjs # NotCalled
  /\ input' \in CallInputs
  /\ esm' = NotCalled
  /\ cjs' = NotCalled
  /\ UNCHANGED <<esmLastIndex, cjsLastIndex, calls>>

NextCalls == ExecESM \/ ExecCJS \/ NextInput

InitCalls == InitOn(CallInputs)
\* a sequence of calls on the two shared pattern objects
SpecCalls == InitCalls /\ [][NextCalls]_vars

InitSteps == InitOn(StepInputs)
\* calls on long strings
SpecSteps == InitSteps /\ [][Next]_vars

InitEdits == InitOn(EditInputs)
\* calls on accepted strings with one character changed
SpecEdits == InitEdits /\ [][Next]_vars

InitShapes == InitOn(ShapeInputs)
\* calls on years, months and days of every width
SpecShapes == InitShapes /\ [][Next]_vars

(***************************************************************************)
(* Reading a result, and the reference validator the claims compare with   *)
(***************************************************************************)
Called(r) == r # NotCalled
\* test(input) is true, exec(input) is not null
Accepts(r) == r # NotCalled /\ r # Null
Rejects(r) == r = Null
\* match.groups of an accepting call
GroupsOf(r) == r[1].groups[1]

Val(c) == CHOOSE n \in 0..9 : DigitChar[n + 1] = c

RECURSIVE Num(_)
Num(str) == IF str = <<>> THEN 0 ELSE 10 * Num(SubSeq(str, 1, Len(str) - 1)) + Val(str[Len(str)])

AllDigits(str) == \A i \in 1..Len(str) : str[i] \in Digit

IsLeapYear(y) == (y % 4 = 0 /\ y % 100 # 0) \/ y % 400 = 0

DaysInMonth(mo, y) ==
  IF mo \in {1, 3, 5, 7, 8, 10, 12} THEN 31
  ELSE IF mo \in {4, 6, 9, 11} THEN 30
  ELSE IF IsLeapYear(y) THEN 29 ELSE 28

\* s[1..10] is dddd-dd-dd
DateShape(s) ==
  /\ Len(s) >= 10
  /\ AllDigits(SubSeq(s, 1, 4)) /\ s[5] = "-"
  /\ AllDigits(SubSeq(s, 6, 7)) /\ s[8] = "-"
  /\ AllDigits(SubSeq(s, 9, 10))

\* s[11..19] is Tdd:dd:dd
TimeShape(s) ==
  /\ Len(s) >= 19
  /\ s[11] = "T"
  /\ AllDigits(SubSeq(s, 12, 13)) /\ s[14] = ":"
  /\ AllDigits(SubSeq(s, 15, 16)) /\ s[17] = ":"
  /\ AllDigits(SubSeq(s, 18, 19))

YearOf(s) == Num(SubSeq(s, 1, 4))
MonthOf(s) == Num(SubSeq(s, 6, 7))
DayOf(s) == Num(SubSeq(s, 9, 10))
HourOf(s) == Num(SubSeq(s, 12, 13))
MinuteOf(s) == Num(SubSeq(s, 15, 16))
SecondOf(s) == Num(SubSeq(s, 18, 19))

RefDate(s) ==
  /\ DateShape(s)
  /\ MonthOf(s) \in 1..12
  /\ DayOf(s) \in 1..DaysInMonth(MonthOf(s), YearOf(s))

RefTime(s) ==
  /\ TimeShape(s)
  /\ HourOf(s) <= 23 /\ MinuteOf(s) <= 59 /\ SecondOf(s) <= 59

\* tz is sign dd:dd
OffsetShape(tz) ==
  /\ Len(tz) = 6
  /\ tz[1] \in {"+", "-"}
  /\ AllDigits(SubSeq(tz, 2, 3)) /\ tz[4] = ":" /\ AllDigits(SubSeq(tz, 5, 6))

\* the signed offset in minutes
OffsetMinutes(tz) ==
  (IF tz[1] = "-" THEN -1 ELSE 1)
    * (60 * Num(SubSeq(tz, 2, 3)) + Num(SubSeq(tz, 5, 6)))

RefOffset(tz) ==
  \/ tz = <<"Z">>
  \/ /\ OffsetShape(tz)
     /\ Num(SubSeq(tz, 5, 6)) <= 59
     /\ OffsetMinutes(tz) >= -720 /\ OffsetMinutes(tz) <= 840

\* rest is [.f] offset, f of 1 to 3 digits
RefTail(rest) ==
  \/ RefOffset(rest)
  \/ /\ Len(rest) >= 2 /\ rest[1] = "."
     /\ \E k \in 1..3 :
          /\ Len(rest) >= k + 2
          /\ AllDigits(SubSeq(rest, 2, k + 1))
          /\ RefOffset(SubSeq(rest, k + 2, Len(rest)))

TailOf(s) == SubSeq(s, 20, Len(s))

RefAccepts(s) ==
  RefDate(s) /\ RefTime(s) /\ RefTail(TailOf(s))

(***************************************************************************)
(* Claims                                                                  *)
(***************************************************************************)
\* C1: the CJS pattern accepts a string exactly when the whole string has the
\* shape YYYY-MM-DDTHH:mm:ss[.f](Z|+HH:mm|-HH:mm), f of 1 to 3 digits, the
\* date is a real Gregorian date, the time is in range and the offset is Z
\* or lies in [-12:00, +14:00]: the acceptance set of the reference validator.
C1_RecognizerContract ==
  Called(cjs) => (Accepts(cjs) <=> RefAccepts(input))

C1_Witness ==
  /\ Accepts(cjs)
  /\ input = MkDate(2038, 1, 19) \o MkTime(3, 14, 7)
               \o <<".", "0", "4", "5">> \o MkOffset("+", 13, 59)

\* C2: a Feb 29 string with a valid time and offset is accepted by either
\* pattern exactly when its four-digit year is a Gregorian leap year.
IsFeb29(s) ==
  /\ DateShape(s)
  /\ SubSeq(s, 5, 10) = <<"-", "0", "2", "-", "2", "9">>
  /\ RefTime(s) /\ RefTail(TailOf(s))

C2_LeapYearLaw ==
  IsFeb29(input) =>
    /\ Called(esm) => (Accepts(esm) <=> IsLeapYear(YearOf(input)))
    /\ Called(cjs) => (Accepts(cjs) <=> IsLeapYear(YearOf(input)))

C2_Witness ==
  /\ IsFeb29(input) /\ YearOf(input) = 2400
  /\ Accepts(esm) /\ Accepts(cjs)

\* C3: with a valid time and offset, a string dddd-dd-ddT... is accepted by
\* either pattern exactly when the month is 01..12 and the day is between 01
\* and the length of that month in that year.
IsDated(s) == DateShape(s) /\ RefTime(s) /\ RefTail(TailOf(s))

C3_MonthLengthLaw ==
  IsDated(input) =>
    /\ Called(esm) => (Accepts(esm) <=> RefDate(input))
    /\ Called(cjs) => (Accepts(cjs) <=> RefDate(input))

C3_Witness ==
  /\ IsDated(input) /\ YearOf(input) = 1900
  /\ MonthOf(input) = 2 /\ DayOf(input) = 29
  /\ Rejects(esm) /\ Rejects(cjs)

\* C4: an otherwise valid string ending in sign HH:mm is accepted by the CJS
\* pattern exactly when mm <= 59 and the signed offset lies in [-720, +840]
\* minutes.
HasSignedOffset(s) ==
  /\ RefDate(s) /\ RefTime(s)
  /\ OffsetShape(TailOf(s))

C4_OffsetBoundLaw ==
  (Called(cjs) /\ HasSignedOffset(input)) =>
    (Accepts(cjs) <=>
       /\ Num(SubSeq(TailOf(input), 5, 6)) <= 59
       /\ OffsetMinutes(TailOf(input)) \in -720..840)

C4_Witness ==
  /\ HasSignedOffset(input)
  /\ TailOf(input) = MkOffset("+", 14, 1)
  /\ Rejects(cjs)

\* C5: a string accepted by either pattern is no longer accepted with one
\* character put before or after it, and none of its proper prefixes or
\* suffixes is accepted.
Extends(s, b) ==
  /\ Len(s) = Len(b) + 1
  /\ (Tail(s) = b \/ SubSeq(s, 1, Len(b)) = b)

Truncates(s, b) ==
  /\ Len(s) < Len(b)
  /\ (s = SubSeq(b, 1, Len(s)) \/ s = SubSeq(b, Len(b) - Len(s) + 1, Len(b)))

C5_FullSpan ==
  /\ input \in SpanBases =>
       /\ Called(esm) => Accepts(esm)
       /\ Called(cjs) => Accepts(cjs)
  /\ (\E b \in SpanBases : Extends(input, b) \/ Truncates(input, b)) =>
       /\ Called(esm) => Rejects(esm)
       /\ Called(cjs) => Rejects(cjs)

C5_Witness ==
  /\ input = BaseDate \o BaseTime \o UTC \o <<"\n">>
  /\ Rejects(esm) /\ Rejects(cjs)

\* C6: on every string the CJS pattern accepts, groups has exactly the eight
\* named fields and each holds the substring of the input at its position.
FieldNames ==
  {"year", "month", "day", "hour", "minute", "second", "millisecond", "timezone"}

\* the trailing Z, or the trailing six characters
TimezoneOf(s) ==
  IF s[Len(s)] = "Z" THEN <<"Z">> ELSE SubSeq(s, Len(s) - 5, Len(s))

\* what lies between the seconds and the time zone
MiddleOf(s) == SubSeq(s, 20, Len(s) - Len(TimezoneOf(s)))

C6_FieldExtraction ==
  Accepts(cjs) =>
    LET g == GroupsOf(cjs)
    IN  /\ DOMAIN g = FieldNames
        /\ g.year = Captured(SubSeq(input, 1, 4))
        /\ g.month = Captured(SubSeq(input, 6, 7))
        /\ g.day = Captured(SubSeq(input, 9, 10))
        /\ g.hour = Captured(SubSeq(input, 12, 13))
        /\ g.minute = Captured(SubSeq(input, 15, 16))
        /\ g.second = Captured(SubSeq(input, 18, 19))
        /\ g.millisecond =
             IF input[20] = "." THEN Captured(Tail(MiddleOf(input)))
                                ELSE Undefined
        /\ g.timezone = Captured(TimezoneOf(input))

C6_Witness ==
  /\ Accepts(cjs)
  /\ GroupsOf(cjs) =
       [year |-> Captured(<<"2", "0", "3", "8">>),
        month |-> Captured(<<"0", "1">>),
        day |-> Captured(<<"1", "9">>),
        hour |-> Captured(<<"0", "3">>),
        minute |-> Captured(<<"1", "4">>),
        second |-> Captured(<<"0", "7">>),
        millisecond |-> Captured(<<"0", "4", "5">>),
        timezone |-> Captured(<<"+", "1", "3", ":", "5", "9">>)]

\* C7: on every string the CJS pattern accepts, the captured fields put back
\* together with the grammar's separators give the input.
Rebuild(g) ==
  g.year[1] \o <<"-">> \o g.month[1] \o <<"-">> \o g.day[1] \o <<"T">>
    \o g.hour[1] \o <<":">> \o g.minute[1] \o <<":">> \o g.second[1]
    \o (IF g.millisecond # Undefined THEN <<".">> \o g.millisecond[1] ELSE <<>>)
    \o g.timezone[1]

C7_RoundTrip ==
  Accepts(cjs) =>
    /\ \A nm \in FieldNames \ {"millisecond"} : GroupsOf(cjs)[nm] # Undefined
    /\ Rebuild(GroupsOf(cjs)) = input

C7_Witness ==
  /\ Accepts(cjs)
  /\ GroupsOf(cjs).millisecond = Captured(<<"5">>)
  /\ GroupsOf(cjs).timezone = Captured(MkOffset("-", 0, 0))

\* C8: after a valid date and time and before a valid offset, the fractional
\* part may be absent; a dot followed by k digits is accepted by either
\* pattern exactly when k is 1, 2 or 3; a comma or a doubled dot is rejected.
FractionLaw(r, mid) ==
  Called(r) =>
    /\ mid = <<>> => Accepts(r)
    /\ (mid # <<>> /\ mid[1] = "." /\ AllDigits(Tail(mid))) =>
         (Accepts(r) <=> Len(mid) - 1 \in 1..3)
    /\ (mid # <<>> /\ mid[1] = ",") => Rejects(r)
    /\ (Len(mid) >= 2 /\ mid[1] = "." /\ mid[2] = ".") => Rejects(r)

HasValidEnds(s) ==
  /\ RefDate(s) /\ RefTime(s)
  /\ Len(s) >= 20
  /\ Len(s) - Len(TimezoneOf(s)) >= 19
  /\ RefOffset(TimezoneOf(s))

C8_FractionWidthLaw ==
  HasValidEnds(input) =>
    /\ FractionLaw(esm, MiddleOf(input))
    /\ FractionLaw(cjs, MiddleOf(input))

C8_Witness ==
  /\ HasValidEnds(input)
  /\ MiddleOf(input) = <<".", "0", "0", "0", "0">>
  /\ Rejects(esm) /\ Rejects(cjs)

\* C9: the millisecond field of an accepted string is the fraction digits as
\* written, 1 to 3 of them, and is undefined when the string has no dot.
HasDot(s) == \E i \in 1..Len(s) : s[i] = "."

C9_FractionNotNormalized ==
  Accepts(cjs) =>
    LET ms == GroupsOf(cjs).millisecond
    IN  IF HasDot(input)
          THEN /\ ms # Undefined
               /\ Len(ms[1]) \in 1..3
               /\ ms[1] = SubSeq(input, 21, 20 + Len(ms[1]))
               /\ input[20] = "."
               /\ ~ (input[21 + Len(ms[1])] \in Digit)
          ELSE ms = Undefined

C9_Witness ==
  /\ Accepts(cjs)
  /\ ~ HasDot(input)
  /\ GroupsOf(cjs).millisecond = Undefined
  /\ input = BaseDate \o BaseTime \o MkOffset("+", 14, 0)

\* C10: with a valid date and a valid rest, Ta:b:c with a, b, c runs of digits
\* is accepted by either pattern exactly when each run has two digits and
\* a <= 23, b <= 59, c <= 59.
RECURSIVE RunLen(_, _)
RunLen(s, i) ==
  IF i <= Len(s) /\ s[i] \in Digit THEN 1 + RunLen(s, i + 1) ELSE 0

TimeRuns(s) ==
  LET la == RunLen(s, 12)
      lb == RunLen(s, 13 + la)
      lc == RunLen(s, 14 + la + lb)
  IN  [a |-> SubSeq(s, 12, 11 + la),
       b |-> SubSeq(s, 13 + la, 12 + la + lb),
       c |-> SubSeq(s, 14 + la + lb, 13 + la + lb + lc),
       seps |-> Len(s) >= 13 + la + lb /\ s[12 + la] = ":" /\ s[13 + la + lb] = ":",
       rest |-> SubSeq(s, 14 + la + lb + lc, Len(s))]

IsTimed(s) ==
  /\ RefDate(s)
  /\ Len(s) >= 11 /\ s[11] = "T"
  /\ TimeRuns(s).seps
  /\ Len(TimeRuns(s).a) >= 1 /\ Len(TimeRuns(s).b) >= 1 /\ Len(TimeRuns(s).c) >= 1
  /\ RefTail(TimeRuns(s).rest)

TimeInRange(tr) ==
  /\ Len(tr.a) = 2 /\ Len(tr.b) = 2 /\ Len(tr.c) = 2
  /\ Num(tr.a) <= 23 /\ Num(tr.b) <= 59 /\ Num(tr.c) <= 59

C10_TimeFieldRanges ==
  IsTimed(input) =>
    /\ Called(esm) => (Accepts(esm) <=> TimeInRange(TimeRuns(input)))
    /\ Called(cjs) => (Accepts(cjs) <=> TimeInRange(TimeRuns(input)))

C10_Witness ==
  /\ IsTimed(input)
  /\ TimeRuns(input).a = <<"2", "3">>
  /\ TimeRuns(input).b = <<"5", "9">>
  /\ TimeRuns(input).c = <<"6", "0">>
  /\ Rejects(esm) /\ Rejects(cjs)

\* C11: with a valid time and offset, a string whose part before the T is
\* split at its hyphens is accepted by either pattern exactly when there are
\* three parts, of four, two and two ASCII digits, that name a real date; so
\* every year 0000..9999 is accepted, and a year of another width, a signed
\* year and a one-digit month or day are rejected.
RECURSIVE IndexOf(_, _, _)
IndexOf(s, c, i) ==
  IF i > Len(s) \/ s[i] = c THEN i ELSE IndexOf(s, c, i + 1)

RECURSIVE SplitAt(_, _)
SplitAt(s, c) ==
  LET k == IndexOf(s, c, 1)
  IN  IF k > Len(s) THEN <<s>>
      ELSE <<SubSeq(s, 1, k - 1)>> \o SplitAt(SubSeq(s, k + 1, Len(s)), c)

DatePartOf(s) == SubSeq(s, 1, IndexOf(s, "T", 1) - 1)
AfterDateOf(s) == SubSeq(s, IndexOf(s, "T", 1), Len(s))

HasValidRest(s) ==
  LET t == BaseDate \o AfterDateOf(s)
  IN  RefTime(t) /\ RefTail(TailOf(t))

WellFormedDate(p) ==
  /\ Len(p) = 3
  /\ Len(p[1]) = 4 /\ Len(p[2]) = 2 /\ Len(p[3]) = 2
  /\ AllDigits(p[1]) /\ AllDigits(p[2]) /\ AllDigits(p[3])
  /\ Num(p[2]) \in 1..12
  /\ Num(p[3]) \in 1..DaysInMonth(Num(p[2]), Num(p[1]))

C11_FieldWidths ==
  HasValidRest(input) =>
    LET ok == WellFormedDate(SplitAt(DatePartOf(input), "-"))
    IN  /\ Called(esm) => (Accepts(esm) <=> ok)
        /\ Called(cjs) => (Accepts(cjs) <=> ok)

C11_Witness ==
  /\ input = <<"0", "0", "0", "0">> \o AfterYear
  /\ Accepts(esm) /\ Accepts(cjs)

\* the acceptance set the ESM source documents: as RefAccepts, with any
\* offset of hours 00..23 and minutes 00..59
RefOffsetWide(tz) ==
  \/ tz = <<"Z">>
  \/ /\ OffsetShape(tz)
     /\ Num(SubSeq(tz, 2, 3)) <= 23 /\ Num(SubSeq(tz, 5, 6)) <= 59

RefTailWide(rest) ==
  \/ RefOffsetWide(rest)
  \/ /\ Len(rest) >= 2 /\ rest[1] = "."
     /\ \E k \in 1..3 :
          /\ Len(rest) >= k + 2
          /\ AllDigits(SubSeq(rest, 2, k + 1))
          /\ RefOffsetWide(SubSeq(rest, k + 2, Len(rest)))

RefAcceptsWide(s) ==
  RefDate(s) /\ RefTime(s) /\ RefTailWide(TailOf(s))

\* C12: a string obtained from a valid one by writing t or a space for the T,
\* z for the Z, / or . for a date hyphen, any other character for a time
\* colon, or a comma for the fraction dot, is rejected by either pattern.
Swap(s, i, c) == [s EXCEPT ![i] = c]

\* the positions of s that hold such a replacement, each with the separator
\* that was replaced
SeparatorSwaps(s) ==
  {<<i, "T">> : i \in {j \in {11} : j <= Len(s) /\ s[j] \in {"t", " "}}}
  \cup {<<i, "Z">> : i \in {j \in {Len(s)} : j >= 1 /\ s[j] = "z"}}
  \cup {<<i, "-">> : i \in {j \in {5, 8} : j <= Len(s) /\ s[j] \in {"/", "."}}}
  \cup {<<i, ":">> : i \in {j \in {14, 17} : j <= Len(s) /\ s[j] # ":"}}
  \cup {<<i, ".">> : i \in {j \in {20} : j <= Len(s) /\ s[j] = ","}}

C12_SeparatorStrictness ==
  \A sw \in SeparatorSwaps(input) :
    LET orig == Swap(input, sw[1], sw[2])
    IN  /\ (RefAcceptsWide(orig) /\ Called(esm)) => Rejects(esm)
        /\ (RefAccepts(orig) /\ Called(cjs)) => Rejects(cjs)

C12_Witness ==
  /\ input = Swap(BaseDate \o BaseTime \o <<".", "5">> \o UTC, 22, "z")
  /\ <<22, "Z">> \in SeparatorSwaps(input)
  /\ Rejects(esm) /\ Rejects(cjs)

\* C13: a string that holds a newline, carriage return, tab, space or NUL at
\* any position is rejected by either pattern; so is a valid string with a
\* newline before or after it, and two valid strings joined by a space or a
\* newline.
ControlChars == {"\n", "\r", "\t", " ", "U+0000"}

HasControlChar(s) == \E i \in 1..Len(s) : s[i] \in ControlChars

C13_WholeInputAnchoring ==
  HasControlChar(input) =>
    /\ Called(esm) => Rejects(esm)
    /\ Called(cjs) => Rejects(cjs)

C13_Witness ==
  /\ input = (BaseDate \o BaseTime \o UTC) \o <<"\n">>
               \o (BaseDate \o BaseTime \o MkOffset("-", 0, 0))
  /\ Rejects(esm) /\ Rejects(cjs)

\* C14: after a valid date and time, a string whose remainder is not an
\* optional fraction of 1 to 3 digits followed by exactly one designator, Z
\* or sign dd:dd, is rejected by either pattern: so with no designator, with
\* a second designator, with a bare sign, or with an offset that misses a
\* digit, its minutes or its colon.
IsDesignator(tz) == tz = <<"Z">> \/ OffsetShape(tz)

HasOneDesignator(rest) ==
  \/ IsDesignator(rest)
  \/ /\ Len(rest) >= 2 /\ rest[1] = "."
     /\ \E k \in 1..3 :
          /\ Len(rest) >= k + 2
          /\ AllDigits(SubSeq(rest, 2, k + 1))
          /\ IsDesignator(SubSeq(rest, k + 2, Len(rest)))

C14_DesignatorExactlyOnce ==
  (RefDate(input) /\ RefTime(input) /\ ~HasOneDesignator(TailOf(input))) =>
    /\ Called(esm) => Rejects(esm)
    /\ Called(cjs) => Rejects(cjs)

C14_Witness ==
  /\ input = BaseDate \o BaseTime \o UTC \o MkOffset("+", 9, 0)
  /\ ~HasOneDesignator(TailOf(input))
  /\ Rejects(esm) /\ Rejects(cjs)

\* C15: a valid date and time, with or without a fraction, followed by Z,
\* +00:00 or -00:00 is accepted by the CJS pattern, and the timezone field
\* holds the spelling that was written.
EndsWith(rest, z) ==
  \/ rest = z
  \/ /\ Len(rest) >= 2 /\ rest[1] = "."
     /\ \E k \in 1..3 :
          /\ Len(rest) >= k + 2
          /\ AllDigits(SubSeq(rest, 2, k + 1))
          /\ SubSeq(rest, k + 2, Len(rest)) = z

C15_ZeroOffsetSpellings ==
  \A z \in ZeroOffsets :
    (RefDate(input) /\ RefTime(input) /\ EndsWith(TailOf(input), z)
       /\ Called(cjs))
      => /\ Accepts(cjs)
         /\ GroupsOf(cjs).timezone = Captured(z)

C15_Witness ==
  /\ input = MkDate(2024, 2, 28) \o MkTime(23, 59, 59) \o MkOffset("-", 0, 0)
  /\ Accepts(cjs)
  /\ GroupsOf(cjs).timezone = Captured(<<"-", "0", "0", ":", "0", "0">>)

\* C16: on every string outside its acceptance set, the empty string, text
\* such as undefined or null and strings with control characters included, a
\* pattern returns the one value null, which carries no field, and the call
\* leaves nothing behind on the pattern object.
C16_UniformRejection ==
  /\ (Called(cjs) /\ ~RefAccepts(input)) => (cjs = Null /\ cjsLastIndex = 0)
  /\ (Called(esm) /\ ~RefAcceptsWide(input)) => (esm = Null /\ esmLastIndex = 0)

C16_Witness ==
  /\ input = <<"u", "n", "d", "e", "f", "i", "n", "e", "d">>
  /\ cjs = Null /\ esm = Null

\* C17: after any sequence of calls on the shared pattern objects, with
\* accepted and rejected strings in any order and any string repeated, the
\* result of a call is the result the same call gives on a pattern object
\* that was never used (lastIndex 0), and lastIndex is still 0.
FirstCallESM(s) == RegExpExec(ESM_Regex, ESM_NGroups, ESM_GroupSlot, s, 0)
FirstCallCJS(s) == RegExpExec(CJS_Regex, CJS_NGroups, GroupSlot, s, 0)

C17_CallIndependence ==
  /\ Called(esm) => esm = FirstCallESM(input)
  /\ Called(cjs) => cjs = FirstCallCJS(input)
  /\ Called(cjs) => (Accepts(cjs) <=> RefAccepts(input))
  /\ esmLastIndex = 0 /\ cjsLastIndex = 0

\* an accepted string validated after calls on other strings
C17_Witness ==
  /\ calls >= 3
  /\ input = BaseDate \o BaseTime \o UTC
  /\ Accepts(esm) /\ Accepts(cjs)
  /\ GroupsOf(cjs).timezone = Captured(UTC)

\* C18: with a valid date and time, the ESM pattern rejects every signed
\* offset outside -12:00..+14:00 (+14:01, +15:00, -12:59, -13:00, +23:59,
\* -23:59) and accepts +14:00 and -12:00.  The ESM source does not satisfy
\* this: its offset is [+-](?:[01]\d|2[0-3]):[0-5]\d.
C18_EsmOffsetBounds ==
  (Called(esm) /\ HasSignedOffset(input)) =>
    /\ OffsetMinutes(TailOf(input)) \notin -720..840 => Rejects(esm)
    /\ TailOf(input) \in {MkOffset("+", 14, 0), MkOffset("-", 12, 0)}
         => Accepts(esm)

\* C19: on every string the ESM pattern accepts, the match has a groups
\* object whose fields year, month, day, hour, minute, second and timezone
\* are the substrings of the input and whose millisecond is the fraction
\* digits or undefined.  The ESM source does not satisfy this: it has no
\* named group, so groups is undefined.
C19_EsmNamedGroups ==
  Accepts(esm) =>
    /\ esm[1].groups # Undefined
    /\ LET g == GroupsOf(esm)
       IN  /\ g.year = Captured(SubSeq(input, 1, 4))
           /\ g.month = Captured(SubSeq(input, 6, 7))
           /\ g.day = Captured(SubSeq(input, 9, 10))
           /\ g.hour = Captured(SubSeq(input, 12, 13))
           /\ g.minute = Captured(SubSeq(input, 15, 16))
           /\ g.second = Captured(SubSeq(input, 18, 19))
           /\ g.millisecond =
                IF input[20] = "." THEN Captured(Tail(MiddleOf(input)))
                                   ELSE Undefined
           /\ g.timezone = Captured(TimezoneOf(input))

FixedLayout(s) == DateShape(s) /\ TimeShape(s)

C21_FixedLayout ==
  /\ Accepts(esm) => FixedLayout(input)
  /\ Accepts(cjs) => FixedLayout(input)

C21_Witness ==
  /\ input = <<"2", "0", "2", "5", "-", "W", "4", "5", "-", "7">>
               \o MkTime(12, 0, 0) \o UTC
  /\ ~FixedLayout(input)
  /\ Rejects(esm) /\ Rejects(cjs)

\* C22: a call on a string of length n visits at most Weight(pattern) + 2n
\* pattern nodes, all backtracking included: one attempt costs no more than
\* one pass over the pattern, and each later start index costs the two visits
\* that fail at ^.  The work is linear in the length of the input, and no
\* repetition of either pattern is unbounded.
RECURSIVE MaxRepeat(_)
MaxRepeat(n) ==
  CASE n.k \in {"cls", "bol", "eol"} -> 1
    [] n.k \in {"cat", "alt"} ->
         LET hs == {MaxRepeat(n.ns[a]) : a \in 1..Len(n.ns)}
         IN  CHOOSE h \in hs : \A g \in hs : g <= h
    [] n.k = "rep" ->
         IF n.hi > MaxRepeat(n.n) THEN n.hi ELSE MaxRepeat(n.n)
    [] n.k \in {"grp", "lookbehind", "neglookahead"} -> MaxRepeat(n.n)

C22_LinearWork ==
  /\ Called(esm) =>
       ExecSteps(ESM_Regex, ESM_NGroups, input, 0)
         <= Weight(ESM_Regex) + 2 * Len(input)
  /\ Called(cjs) =>
       ExecSteps(CJS_Regex, CJS_NGroups, input, 0)
         <= Weight(CJS_Regex) + 2 * Len(input)
  /\ MaxRepeat(ESM_Regex) <= 4 /\ MaxRepeat(CJS_Regex) <= 4

C22_Witness ==
  /\ input = BaseDate \o BaseTime \o <<".">> \o Repeat("1", MaxRun) \o <<"x">>
  /\ Rejects(esm) /\ Rejects(cjs)
  /\ ExecSteps(CJS_Regex, CJS_NGroups, input, 0) > 2 * Len(input)

\* C23: on every string that ends with the designator Z, the ESM pattern
\* (leap-year branch or lookahead-guarded common-year branch) and the CJS
\* pattern (lookbehind-guarded day alternatives) give the same verdict.
EndsInZ(s) == Len(s) >= 1 /\ s[Len(s)] = "Z"

C23_SameDatesAndTimes ==
  (EndsInZ(input) /\ Called(esm) /\ Called(cjs)) =>
    (Accepts(esm) <=> Accepts(cjs))

C23_Witness ==
  /\ input = MkDate(2024, 2, 29) \o BaseTime \o UTC
  /\ Accepts(esm) /\ Accepts(cjs)

\* C24: in every result the CJS pattern accepts with, the captured fields are
\* in range: year 0..9999, month 1..12, day 1..31 and no more than the days
\* of that month in that year, hour 0..23, minute and second 0..59,
\* millisecond undefined or 1 to 3 digits, timezone Z or a signed offset in
\* [-12:00, +14:00].
IsNumber(c) == c # Undefined /\ Len(c[1]) >= 1 /\ AllDigits(c[1])

C24_FieldRanges ==
  Accepts(cjs) =>
    LET g == GroupsOf(cjs)
    IN  /\ \A nm \in FieldNames \ {"millisecond", "timezone"} : IsNumber(g[nm])
        /\ Num(g.year[1]) \in 0..9999
        /\ Num(g.month[1]) \in 1..12
        /\ Num(g.day[1]) \in 1..31
        /\ Num(g.day[1]) <= DaysInMonth(Num(g.month[1]), Num(g.year[1]))
        /\ Num(g.hour[1]) \in 0..23
        /\ Num(g.minute[1]) \in 0..59
        /\ Num(g.second[1]) \in 0..59
        /\ \/ g.millisecond = Undefined
           \/ IsNumber(g.millisecond) /\ Len(g.millisecond[1]) \in 1..3
        /\ g.timezone # Undefined
        /\ \/ g.timezone[1] = <<"Z">>
           \/ /\ OffsetShape(g.timezone[1])
              /\ Num(SubSeq(g.timezone[1], 5, 6)) <= 59
              /\ OffsetMinutes(g.timezone[1]) \in -720..840

C24_Witness ==
  /\ Accepts(cjs)
  /\ GroupsOf(cjs).month = Captured(<<"0", "2">>)
  /\ GroupsOf(cjs).day = Captured(<<"2", "9">>)
  /\ GroupsOf(cjs).second = Captured(<<"5", "9">>)
  /\ GroupsOf(cjs).timezone = Captured(MkOffset("+", 14, 0))

\* C25: a string accepted by either pattern has 19 characters of date and
\* time, then 0, 2, 3 or 4 of fraction, then 1 or 6 of designator: its length
\* is one of 20, 22, 23, 24, 25, 27, 28, 29.  A string of any other length,
\* the empty string included, is rejected.
AcceptedLengths == {19 + f + z : f \in {0, 2, 3, 4}, z \in {1, 6}}

C25_AcceptedLengths ==
  /\ AcceptedLengths = {20, 22, 23, 24, 25, 27, 28, 29}
  /\ Accepts(esm) => Len(input) \in AcceptedLengths
  /\ Accepts(cjs) => Len(input) \in AcceptedLengths

C25_Witness ==
  /\ Len(input) = 29
  /\ Accepts(esm) /\ Accepts(cjs)

\* C26: every character of a string accepted by either pattern is an ASCII
\* digit or one of - : . T Z +; a string with a digit of another script, the
\* minus sign U+2212 or any other character is rejected.
AcceptedChars == Digit \cup {"-", ":", ".", "T", "Z", "+"}

C26_AsciiOnly ==
  /\ Accepts(esm) => \A i \in 1..Len(input) : input[i] \in AcceptedChars
  /\ Accepts(cjs) => \A i \in 1..Len(input) : input[i] \in AcceptedChars

C26_Witness ==
  /\ input = Swap(BaseDate \o BaseTime \o MkOffset("-", 0, 0), 4, "U+0663")
  /\ Rejects(esm) /\ Rejects(cjs)

\* C27: on every string the CJS pattern accepts, exactly one of the four day
\* alternatives matches the day and exactly one of the three timezone
\* alternatives matches the designator; and the result of a call, verdict and
\* captures, is the same with every alternation of the pattern written in
\* the opposite order.
DayAlternatives == CJS_day.n.ns
TimezoneAlternatives == <<CJS_timezone.n.ns[1]>> \o CJS_timezone.n.ns[2].ns

\* node n matches s from position p to position q
Spans(n, s, p, q) ==
  LET rs == M(n, s, Thread(p, CJS_NGroups), TRUE)
  IN  \E r \in 1..Len(rs) : rs[r].pos = q

Reverse(ns) == [a \in 1..Len(ns) |-> ns[Len(ns) + 1 - a]]

RECURSIVE Reordered(_)
Reordered(n) ==
  CASE n.k \in {"cls", "bol", "eol"} -> n
    [] n.k = "cat" -> [n EXCEPT !.ns = [a \in 1..Len(n.ns) |-> Reordered(n.ns[a])]]
    [] n.k = "alt" ->
         [n EXCEPT !.ns = Reverse([a \in 1..Len(n.ns) |-> Reordered(n.ns[a])])]
    [] n.k \in {"rep", "grp", "lookbehind", "neglookahead"} ->
         [n EXCEPT !.n = Reordered(n.n)]

C27_Unambiguous ==
  /\ Accepts(cjs) =>
       /\ Cardinality({a \in 1..Len(DayAlternatives) :
                         Spans(DayAlternatives[a], input, 8, 10)}) = 1
       /\ Cardinality({a \in 1..Len(TimezoneAlternatives) :
                         Spans(TimezoneAlternatives[a], input,
                               Len(input) - Len(TimezoneOf(input)),
                               Len(input))}) = 1
  /\ Called(cjs) =>
       cjs = RegExpExec(Reordered(CJS_Regex), CJS_NGroups, GroupSlot, input, 0)

C27_Witness ==
  /\ input = MkDate(2024, 2, 29) \o MkTime(23, 59, 59)
               \o <<".", "1", "2", "3">> \o MkOffset("+", 14, 0)
  /\ Accepts(cjs)
  /\ Len(DayAlternatives) = 4 /\ Len(TimezoneAlternatives) = 3
  /\ Spans(DayAlternatives[4], input, 8, 10)
  /\ Spans(TimezoneAlternatives[2], input, 23, 29)

\* C28: neither pattern has the global or the sticky flag; after any sequence
\* of calls, accepting or rejecting, lastIndex of both pattern objects is 0,
\* and a match starts at index 0.
C28_LastIndexUntouched ==
  /\ esmLastIndex = 0 /\ cjsLastIndex = 0
  /\ Accepts(esm) => esm[1].index = 0
  /\ Accepts(cjs) => cjs[1].index = 0

C28_Witness ==
  /\ calls >= 4
  /\ input = BaseDate \o BaseTime \o <<".", "5">> \o MkOffset("+", 23, 59)
  /\ Accepts(esm) /\ Rejects(cjs)
  /\ esmLastIndex = 0 /\ cjsLastIndex = 0

\* C29: in the ESM pattern the year of a string that starts with four digits
\* is matched by the year part of exactly one of the two date branches, the
\* leap-year branch exactly when the year is a leap year; and an accepted
\* string is accepted through the branch of its year only.
ESM_leapYearPart == ESM_leapDate.ns[1]
ESM_commonYearPart == Cat(<<ESM_commonDate.ns[1], ESM_commonDate.ns[2]>>)

\* the ESM pattern with a single date branch
ESM_Through(branch) ==
  Cat(<<Bol, branch, ESM_time, ESM_fraction, ESM_offset, Eol>>)

MatchesWhole(re, s) == M(re, s, Thread(0, ESM_NGroups), TRUE) # <<>>

HasYear(s) == Len(s) >= 4 /\ AllDigits(SubSeq(s, 1, 4))

C29_BranchesPartitionYears ==
  HasYear(input) =>
    LET leap == IsLeapYear(YearOf(input))
    IN  /\ Spans(ESM_leapYearPart, input, 0, 4) <=> leap
        /\ Spans(ESM_commonYearPart, input, 0, 4) <=> ~leap
        /\ Accepts(esm) =>
             /\ MatchesWhole(ESM_Through(ESM_leapDate), input) <=> leap
             /\ MatchesWhole(ESM_Through(ESM_commonDate), input) <=> ~leap

C29_Witness ==
  /\ input = Pad4(1900) \o AfterYear
  /\ Accepts(esm)
  /\ MatchesWhole(ESM_Through(ESM_commonDate), input)
  /\ ~Spans(ESM_leapYearPart, input, 0, 4)

\* C30: a match of the CJS pattern has nine capture slots: 1, 2, 3 are year,
\* month, day, slot 4 is the unnamed group of the leap-year lookbehind, and
\* 5 to 9 are hour, minute, second, millisecond, timezone.  Slot 4 holds the
\* year when the month is 02 and the day is 29, and is undefined otherwise.
C30_NineCaptureSlots ==
  Accepts(cjs) =>
    LET c == cjs[1].caps
        g == GroupsOf(cjs)
    IN  /\ DOMAIN c = 1..9
        /\ c[1] = g.year /\ c[2] = g.month /\ c[3] = g.day
        /\ c[5] = g.hour /\ c[6] = g.minute /\ c[7] = g.second
        /\ c[8] = g.millisecond /\ c[9] = g.timezone
        /\ c[1] = Captured(SubSeq(input, 1, 4))
        /\ c[4] = IF SubSeq(input, 6, 10) = <<"0", "2", "-", "2", "9">>
                    THEN Captured(SubSeq(input, 1, 4))
                    ELSE Undefined

C30_Witness ==
  /\ Accepts(cjs)
  /\ cjs[1].caps[3] = Captured(<<"2", "9">>)
  /\ cjs[1].caps[4] = Captured(<<"2", "0", "0", "0">>)

====
